---- MODULE Spec2Model ----
(***************************************************************************)
(* Model of treasury_analysis_daily.py: the daily pipeline                 *)
(*   main -> get_treasury_data -> analyze_rates -> plot_curve              *)
(* with the environment it depends on: the wall clock (datetime.now), the  *)
(* FRED provider (pdr.get_data_fred) and the static image renderer         *)
(* (fig.write_image).                                                      *)
(*                                                                         *)
(* Yields are counted in quarter percentage points (0.25 %), so that the   *)
(* code's threshold 0.5 is the integer 2.  A cell of a table is NaN or     *)
(* Num(v); subtraction and comparison follow IEEE/pandas: anything with    *)
(* NaN is NaN, every comparison with NaN is false.                         *)
(***************************************************************************)
EXTENDS Integers, Sequences, FiniteSets, TLC

VARIABLES pc, clock, end_date, start_date, idx, data, requests, df,
          stats, report, writes, calls, console, fred

vars == <<pc, clock, end_date, start_date, idx, data, requests, df,
          stats, report, writes, calls, console, fred>>

(***************************************************************************)
(* Bounds of the model.                                                    *)
(***************************************************************************)
\* observation dates the provider can hold are 1..MaxDays; the run starts on day MaxDays
MaxDays == 2
\* yields are 0..MaxYield quarter points
MaxYield == 2
\* how many clock steps may pass during one run
MaxTicks == 1
\* window sizes 1..MaxWindow are tried when analyze_rates is checked on its own
MaxWindow == 3
\* clock steps in one calendar day (the clock is finer than the date stamp)
ClockStepsPerDay == 2

(***************************************************************************)
(* Program constants.                                                      *)
(***************************************************************************)
\* main: n_days = 90
n_days == 90
\* main: years = 2
years == 2
\* get_treasury_data: timedelta(days=365 * years)
DaysPerYear == 365
\* analyze_rates: "elif spread < 0.5", in quarter points
FlatThreshold == 2

(***************************************************************************)
(* Values.                                                                 *)
(***************************************************************************)
NaN == <<"nan">>
None == <<"none">>
Num(v) == <<"num", v>>
CsvEmpty == <<"">>
NotComputed == <<"not computed">>

IsNum(x) == Len(x) = 2 /\ x[1] = "num"
Cells == {NaN} \cup {Num(v) : v \in 0..MaxYield}
Dates == 1..MaxDays

\* float subtraction: NaN if either operand is NaN
Sub(a, b) == IF IsNum(a) /\ IsNum(b) THEN Num(a[2] - b[2]) ELSE NaN
\* float comparison a < k for an integer k: false for NaN
Lt(a, k) == IsNum(a) /\ a[2] < k

\* the series dict of get_treasury_data, in insertion order
series == <<"1Y", "2Y", "3Y", "5Y", "7Y", "10Y", "20Y", "30Y">>
\* the FRED code of each maturity
Code(m) ==
    CASE m = "1Y" -> "DGS1" [] m = "2Y" -> "DGS2" [] m = "3Y" -> "DGS3"
      [] m = "5Y" -> "DGS5" [] m = "7Y" -> "DGS7" [] m = "10Y" -> "DGS10"
      [] m = "20Y" -> "DGS20" [] m = "30Y" -> "DGS30"
\* the display order of analyze_rates
order == <<"1Y", "2Y", "3Y", "5Y", "7Y", "10Y", "20Y", "30Y">>
\* the maturities plot_curve can place on its x axis
maturity_map == {"1M", "3M", "6M", "1Y", "2Y", "3Y", "5Y", "7Y", "10Y", "20Y", "30Y"}

Range(s) == {s[i] : i \in DOMAIN s}
Maturities == Range(series)

\* strftime('%Y%m%d') / strftime('%Y-%m-%d') of a datetime: its calendar day
Strftime(t) == t \div ClockStepsPerDay
\* the first clock value of calendar day d
DayStart(d) == d * ClockStepsPerDay

(***************************************************************************)
(* pandas: DataFrame construction and the operations the program uses.     *)
(* A DataFrame is [columns: sequence, index: ascending sequence of dates,  *)
(* at: date -> column -> cell].                                            *)
(***************************************************************************)
RECURSIVE SortedSeq(_)
SortedSeq(S) ==
    IF S = {} THEN <<>>
    ELSE LET lo == CHOOSE x \in S : \A y \in S : x <= y
         IN <<lo>> \o SortedSeq(S \ {lo})

\* pd.DataFrame()
EmptyDataFrame == [columns |-> <<>>, index |-> <<>>, at |-> <<>>]

\* pd.DataFrame(d) for a dict of Series: columns in insertion order, the union
\* of the indexes, NaN where a series has no observation
DataFrame(d) ==
    LET cols == SelectSeq(series, LAMBDA m : m \in DOMAIN d)
        days == UNION {DOMAIN d[m] : m \in DOMAIN d}
    IN [columns |-> cols,
        index |-> SortedSeq(days),
        at |-> [t \in days |-> [m \in DOMAIN d |->
                    IF t \in DOMAIN d[m] THEN d[m][t] ELSE NaN]]]

\* dropna(how='any'): a row is dropped when some cell is missing
DropRowAny(row) == \E m \in DOMAIN row : ~IsNum(row[m])

\* the row test of dropna(how='all'): a row is dropped when every cell is missing
DropRow(row) == \A m \in DOMAIN row : ~IsNum(row[m])

\* df.dropna(how='all')
dropna(f) ==
    LET keep == SelectSeq(f.index, LAMBDA t : ~DropRow(f.at[t]))
    IN [columns |-> f.columns,
        index |-> keep,
        at |-> [t \in Range(keep) |-> f.at[t]]]

\* df.empty
empty(f) == Len(f.index) = 0 \/ Len(f.columns) = 0

\* the first row of df.tail(n)
TailStart(len, n) == IF len > n THEN len - n + 1 ELSE 1

\* a window that ends before the last row (df.iloc[-n-1:-1])
TailBeforeLast(f, n) ==
    LET len == Len(f.index)
        keep == SubSeq(f.index, TailStart(len - 1, n), len - 1)
    IN [columns |-> f.columns,
        index |-> keep,
        at |-> [t \in Range(keep) |-> f.at[t]]]

\* df.tail(n)
tail(f, n) ==
    LET keep == SubSeq(f.index, TailStart(Len(f.index), n), Len(f.index))
    IN [columns |-> f.columns,
        index |-> keep,
        at |-> [t \in Range(keep) |-> f.at[t]]]

\* df.iloc[-1]
iloc_last(f) == f.at[f.index[Len(f.index)]]

\* Series.get(key, default)
Get(row, m, default) == IF m \in DOMAIN row THEN row[m] ELSE default

\* the non-missing values of one column, in row order
Values(f, m) ==
    LET all == [i \in 1..Len(f.index) |-> f.at[f.index[i]][m]]
    IN SelectSeq(all, IsNum)

RECURSIVE Insert(_, _)
Insert(s, x) ==
    IF s = <<>> THEN <<x>>
    ELSE IF x[2] <= s[1][2] THEN <<x>> \o s
    ELSE <<s[1]>> \o Insert(Tail(s), x)

RECURSIVE SortValues(_)
SortValues(s) == IF s = <<>> THEN <<>> ELSE Insert(SortValues(Tail(s)), s[1])

RECURSIVE Sum(_)
Sum(s) == IF s = <<>> THEN 0 ELSE s[1][2] + Sum(Tail(s))

\* DataFrame.max(), one column: missing cells are skipped, NaN if none is left
ColMax(f, m) ==
    LET v == SortValues(Values(f, m))
    IN IF v = <<>> THEN NaN ELSE v[Len(v)]

\* DataFrame.min(), one column
ColMin(f, m) ==
    LET v == SortValues(Values(f, m))
    IN IF v = <<>> THEN NaN ELSE v[1]

\* DataFrame.median(), one column, as the fraction <<numerator, denominator>>
ColMedian(f, m) ==
    LET v == SortValues(Values(f, m))
        k == Len(v)
    IN IF k = 0 THEN NaN
       ELSE IF k % 2 = 1 THEN <<"frac", v[(k + 1) \div 2][2], 1>>
       ELSE <<"frac", v[k \div 2][2] + v[k \div 2 + 1][2], 2>>

\* DataFrame.mean(), one column, as the fraction <<numerator, denominator>>
ColMean(f, m) ==
    LET v == Values(f, m)
    IN IF v = <<>> THEN NaN ELSE <<"frac", Sum(v), Len(v)>>

\* a value as DataFrame.to_csv writes it: missing values are empty fields
CsvCell(x) == IF x = NaN \/ x = None THEN CsvEmpty ELSE x

\* DataFrame.to_csv of a YieldTable
to_csv(f) ==
    [columns |-> f.columns,
     index |-> f.index,
     at |-> [t \in DOMAIN f.at |-> [m \in DOMAIN f.at[t] |-> CsvCell(f.at[t][m])]]]

(***************************************************************************)
(* The environment: the provider's history and the clock.                  *)
(***************************************************************************)
ShortEnd == {"1Y", "2Y", "3Y"}
\* a day on which FRED reports no value for any series
Holiday == [m \in Maturities |-> NaN]
\* a day on which every series has a value (10Y - 2Y = -MaxYield quarter points)
InvertedCurve == [m \in Maturities |-> IF m \in ShortEnd THEN Num(MaxYield) ELSE Num(0)]
\* a day on which the short end is not reported (10Y is, 2Y is missing)
PartialCurve == [m \in Maturities |-> IF m \in ShortEnd THEN NaN ELSE Num(1)]
Curves == {Holiday, InvertedCurve, PartialCurve}

\* pdr.get_data_fred(code, start, end)[code] when the request succeeds: the
\* observations of maturity m dated within [start, end]
get_data_fred(m, start, end) ==
    [t \in {u \in Dates : start <= DayStart(u) /\ DayStart(u) <= end} |-> fred[t][m]]

NoStats == <<>>
NoReport == <<>>

Init ==
    /\ pc = "start"
    /\ clock \in {DayStart(MaxDays), DayStart(MaxDays + 1) - 1}
    /\ fred \in [Dates -> Curves]
    /\ end_date = 0
    /\ start_date = 0
    /\ idx = 1
    /\ data = <<>>
    /\ requests = <<>>
    /\ df = EmptyDataFrame
    /\ stats = NoStats
    /\ report = NoReport
    /\ writes = <<>>
    /\ calls = {}
    /\ console = {}

\* the wall clock advances while the run is in progress
Tick ==
    /\ pc \notin {"start", "returned", "done"}
    /\ clock - end_date < MaxTicks
    /\ clock' = clock + 1
    /\ UNCHANGED <<pc, end_date, start_date, idx, data, requests, df,
                   stats, report, writes, calls, console, fred>>

(***************************************************************************)
(* get_treasury_data                                                       *)
(***************************************************************************)
\* main calls get_treasury_data(years); end_date = datetime.now()
Start ==
    /\ pc = "start"
    /\ calls' = calls \cup {"get_treasury_data"}
    /\ end_date' = clock
    /\ start_date' = clock - DayStart(DaysPerYear * years)
    /\ data' = <<>>
    /\ idx' = 1
    /\ pc' = "fetch"
    /\ UNCHANGED <<clock, requests, df, stats, report, writes, console, fred>>

\* a failed request ends the loop (break in the except clause)
AfterFailureBreak(i) == Len(series) + 1

\* where the loop goes after the except clause has handled a failed request
AfterFailure(i) == i + 1

\* one iteration of the loop, the request succeeds
FetchOk ==
    /\ pc = "fetch"
    /\ idx <= Len(series)
    /\ LET m == series[idx]
       IN /\ requests' = Append(requests, Code(m))
          /\ data' = (m :> get_data_fred(m, start_date, end_date)) @@ data
    /\ idx' = idx + 1
    /\ UNCHANGED <<pc, clock, end_date, start_date, df, stats, report,
                   writes, calls, console, fred>>

\* one iteration of the loop, the request raises
FetchFail ==
    /\ pc = "fetch"
    /\ idx <= Len(series)
    /\ requests' = Append(requests, Code(series[idx]))
    /\ idx' = AfterFailure(idx)
    /\ UNCHANGED <<pc, clock, end_date, start_date, data, df, stats, report,
                   writes, calls, console, fred>>

\* the name of a dated output file
DatedFile(base, t) == <<base, Strftime(t)>>

\* after the loop: return the empty frame, or build, clean, save and return the table
Assemble ==
    /\ pc = "fetch"
    /\ idx > Len(series)
    /\ IF DOMAIN data = {}
       THEN /\ df' = EmptyDataFrame
            /\ console' = console \cup {"NO_DATA"}
            /\ UNCHANGED writes
       ELSE /\ df' = dropna(DataFrame(data))
            /\ writes' = Append(writes, [name |-> DatedFile("treasury_data", end_date),
                                         content |-> to_csv(df')])
            /\ UNCHANGED console
    /\ pc' = "main_check"
    /\ UNCHANGED <<clock, end_date, start_date, idx, data, requests,
                   stats, report, calls, fred>>

(***************************************************************************)
(* main                                                                    *)
(***************************************************************************)
\* main without its early return
MainGuardOff(f) == FALSE

\* main: "if df.empty: return"
MainGuard(f) == empty(f)

MainCheck ==
    /\ pc = "main_check"
    /\ pc' = IF MainGuard(df) THEN "returned" ELSE "analyze"
    /\ UNCHANGED <<clock, end_date, start_date, idx, data, requests, df,
                   stats, report, writes, calls, console, fred>>

\* main: the closing report
Complete ==
    /\ pc = "complete"
    /\ console' = console \cup {"COMPLETE"}
    /\ pc' = "done"
    /\ UNCHANGED <<clock, end_date, start_date, idx, data, requests, df,
                   stats, report, writes, calls, fred>>

(***************************************************************************)
(* analyze_rates                                                           *)
(***************************************************************************)
\* a presence test that looks at the 10Y column only
HasPrimaryLoose(cur) == "10Y" \in DOMAIN cur

\* the presence test of the primary spread: '2Y' in current.index and '10Y' in current.index
HasPrimary(cur) == "2Y" \in DOMAIN cur /\ "10Y" \in DOMAIN cur

\* spread = current['10Y'] - current['2Y']
PrimarySpread(cur) == Sub(Get(cur, "10Y", NaN), Get(cur, "2Y", NaN))

\* the if / elif / else that classifies the primary spread
InversionStatus(spread) ==
    IF Lt(spread, 0) THEN "INVERTED"
    ELSE IF Lt(spread, FlatThreshold) THEN "FLAT"
    ELSE "NORMAL"

\* a presence test that lets the default of current.get('3M', 0) be used
Has3M10YLoose(cur) == "10Y" \in DOMAIN cur

\* the presence test of the 3M-10Y spread
Has3M10Y(cur) == "3M" \in DOMAIN cur /\ "10Y" \in DOMAIN cur

\* spread_3m10y = current['10Y'] - current.get('3M', 0), when its test passes
Spread3M10Y(cur) ==
    IF Has3M10Y(cur) THEN Sub(Get(cur, "10Y", NaN), Get(cur, "3M", Num(0)))
    ELSE NotComputed

\* spread_5y30y = current['30Y'] - current['5Y'], when both are present
Spread5Y30Y(cur) ==
    IF "5Y" \in DOMAIN cur /\ "30Y" \in DOMAIN cur
    THEN Sub(Get(cur, "30Y", NaN), Get(cur, "5Y", NaN))
    ELSE NotComputed

\* the stats frame: one row per column of the table
SnapshotStats(f, n) ==
    LET recent == tail(f, n)
        cur == iloc_last(f)
    IN [m \in Range(f.columns) |->
            [Current |-> cur[m],
             Max |-> ColMax(recent, m),
             Min |-> ColMin(recent, m),
             Median |-> ColMedian(recent, m),
             Mean |-> ColMean(recent, m)]]

\* what analyze_rates prints about the curve
Report(f) ==
    LET cur == iloc_last(f)
    IN [snapshot |-> f.index[Len(f.index)],
        yields |-> SelectSeq(order, LAMBDA m : m \in DOMAIN cur),
        spread |-> IF HasPrimary(cur) THEN PrimarySpread(cur) ELSE NotComputed,
        status |-> IF HasPrimary(cur) THEN InversionStatus(PrimarySpread(cur))
                   ELSE "",
        spread_3m10y |-> Spread3M10Y(cur),
        spread_5y30y |-> Spread5Y30Y(cur)]

\* the date of the first row instead of the last
SummaryDateFirst(f) == f.index[1]

\* summary_data['date']
SummaryDate(f) == f.index[Len(f.index)]

\* the '<maturity>_yield' fields of summary_data
SummaryYields(cur) == [m \in Range(order) |-> Get(cur, m, None)]

\* summary_data
summary_data(f) ==
    LET cur == iloc_last(f)
    IN [date |-> SummaryDate(f),
        inversion_status |-> IF HasPrimary(cur) THEN InversionStatus(PrimarySpread(cur))
                             ELSE "N/A",
        spread |-> IF HasPrimary(cur) THEN PrimarySpread(cur) ELSE None,
        yields |-> SummaryYields(cur)]

\* pd.DataFrame([summary_data]).to_csv(..., index=False): the rows of the file
summary_csv(rec) ==
    <<[date |-> rec.date,
       inversion_status |-> rec.inversion_status,
       spread |-> CsvCell(rec.spread),
       yields |-> [m \in DOMAIN rec.yields |-> CsvCell(rec.yields[m])]]>>

analyze_rates(n) ==
    /\ pc = "analyze"
    /\ calls' = calls \cup {"analyze_rates"}
    /\ IF empty(df)
       THEN UNCHANGED <<stats, report, writes>>
       ELSE /\ stats' = SnapshotStats(df, n)
            /\ report' = Report(df)
            /\ writes' = Append(writes, [name |-> DatedFile("treasury_summary", clock),
                                         content |-> summary_csv(summary_data(df))])
    /\ pc' = "plot"
    /\ UNCHANGED <<clock, end_date, start_date, idx, data, requests, df, console, fred>>

\* main: stats = analyze_rates(df, n_days)
Analyze == analyze_rates(n_days)

(***************************************************************************)
(* plot_curve                                                              *)
(***************************************************************************)
\* the figure: its title date and what each of the four panels draws
Figure(f, st, now) ==
    LET shown == SelectSeq(f.columns, LAMBDA m : IsNum(st[m].Current) /\ m \in maturity_map)
    IN [title |-> Strftime(now),
        curve |-> [i \in 1..Len(shown) |-> <<shown[i], st[shown[i]].Current>>],
        trends |-> SelectSeq(<<"2Y", "5Y", "10Y", "30Y">>, LAMBDA m : m \in Range(f.columns)),
        spread |-> "10Y" \in Range(f.columns) /\ "2Y" \in Range(f.columns),
        comparison |-> SelectSeq(f.columns, LAMBDA m :
                          IsNum(st[m].Current) /\ IsNum(st[m].Min) /\ IsNum(st[m].Max))]

\* plot_curve up to fig.write_html
PlotHtml ==
    /\ pc = "plot"
    /\ calls' = calls \cup {"plot_curve"}
    /\ IF empty(df)
       THEN /\ pc' = "complete"
            /\ UNCHANGED writes
       ELSE /\ writes' = Append(writes, [name |-> <<"treasury_analysis_plotly.html">>,
                                         content |-> Figure(df, stats, clock)])
            /\ pc' = "plot_png"
    /\ UNCHANGED <<clock, end_date, start_date, idx, data, requests, df,
                   stats, report, console, fred>>

\* fig.write_image succeeds
PlotPngOk ==
    /\ pc = "plot_png"
    /\ writes' = Append(writes, [name |-> <<"treasury_analysis.png">>,
                                 content |-> writes[Len(writes)].content])
    /\ pc' = "complete"
    /\ UNCHANGED <<clock, end_date, start_date, idx, data, requests, df,
                   stats, report, calls, console, fred>>

\* the exception of fig.write_image is not caught
AfterPngFailureRaise == "crashed"

\* where control goes when fig.write_image raises: the except clause prints a warning
AfterPngFailure == "complete"

\* fig.write_image raises
PlotPngFail ==
    /\ pc = "plot_png"
    /\ console' = console \cup {"PNG_WARNING"}
    /\ pc' = AfterPngFailure
    /\ UNCHANGED <<clock, end_date, start_date, idx, data, requests, df,
                   stats, report, writes, calls, fred>>

(***************************************************************************)
(* The run of main.                                                        *)
(***************************************************************************)
Next ==
    \/ Tick
    \/ Start
    \/ FetchOk
    \/ FetchFail
    \/ Assemble
    \/ MainCheck
    \/ Analyze
    \/ PlotHtml
    \/ PlotPngOk
    \/ PlotPngFail
    \/ Complete

Spec == Init /\ [][Next]_vars

(***************************************************************************)
(* get_treasury_data's assembly and analyze_rates on their own: the        *)
(* fetched series are drawn from every series over Dates (a series may     *)
(* start late, may be empty, and any cell may be missing), for the two     *)
(* maturities of the primary spread, and every window size is tried.       *)
(***************************************************************************)
StatsMaturities == {"2Y", "10Y"}
AllSeries == UNION {[k..MaxDays -> Cells] : k \in 1..(MaxDays + 1)}
FetchedDicts == UNION {[S -> AllSeries] : S \in SUBSET StatsMaturities}

InitStats ==
    /\ pc = "fetch"
    /\ clock = DayStart(MaxDays)
    /\ fred = [t \in Dates |-> Holiday]
    /\ end_date = clock
    /\ start_date = clock - DayStart(DaysPerYear * years)
    /\ idx = Len(series) + 1
    /\ data \in FetchedDicts
    /\ requests = [i \in 1..Len(series) |-> Code(series[i])]
    /\ df = EmptyDataFrame
    /\ stats = NoStats
    /\ report = NoReport
    /\ writes = <<>>
    /\ calls = {"get_treasury_data"}
    /\ console = {}

\* analyze_rates(df, n) for any window size n
AnalyzeWindow == \E n \in 1..MaxWindow : analyze_rates(n)

NextStats ==
    \/ Assemble
    \/ MainCheck
    \/ AnalyzeWindow

SpecStats == InitStats /\ [][NextStats]_vars

(***************************************************************************)
(* Reading the state: the files written so far and the summary row.        *)
(***************************************************************************)
WritesOf(base) == {i \in DOMAIN writes : writes[i].name[1] = base}
Written(base) == WritesOf(base) # {}
FirstWrite(base) == CHOOSE i \in WritesOf(base) : \A j \in WritesOf(base) : i <= j
SummaryFile == writes[FirstWrite("treasury_summary")]
SummaryRow == SummaryFile.content[1]
DataFile == writes[FirstWrite("treasury_data")]
ColumnsOf(f) == Range(f.columns)
LastRow == df.at[df.index[Len(df.index)]]
AllRequested == Len(requests) = Len(series)
LoopOver == pc \notin {"start", "fetch"}
\* a >= k and a <= b on floats: false when an operand is NaN
Ge(a, k) == IsNum(a) /\ a[2] >= k
Le(a, b) == IsNum(a) /\ IsNum(b) /\ a[2] <= b[2]

(***************************************************************************)
(* C1: when the 2Y and 10Y columns are present, the recorded inversion     *)
(* status is INVERTED exactly when spread < 0, FLAT exactly when           *)
(* 0 <= spread < 0.5 and NORMAL exactly when spread >= 0.5, where          *)
(* spread = Current[10Y] - Current[2Y], whatever the last row holds        *)
(* (a missing 2Y or 10Y cell included).                                    *)
(***************************************************************************)
C1_StatusFollowsSpread ==
    (Written("treasury_summary") /\ {"2Y", "10Y"} \subseteq ColumnsOf(df)) =>
        LET spread == Sub(LastRow["10Y"], LastRow["2Y"])
            status == SummaryRow.inversion_status
        IN /\ (status = "INVERTED") <=> Lt(spread, 0)
           /\ (status = "FLAT") <=> (Ge(spread, 0) /\ Lt(spread, FlatThreshold))
           /\ (status = "NORMAL") <=> Ge(spread, FlatThreshold)

\* the same statement restricted to last rows whose 2Y and 10Y cells both hold a value
C1_StatusFollowsNumericSpread ==
    (/\ Written("treasury_summary")
     /\ {"2Y", "10Y"} \subseteq ColumnsOf(df)
     /\ IsNum(LastRow["2Y"]) /\ IsNum(LastRow["10Y"])) =>
        LET spread == LastRow["10Y"][2] - LastRow["2Y"][2]
            status == SummaryRow.inversion_status
        IN /\ (status = "INVERTED") <=> (spread < 0)
           /\ (status = "FLAT") <=> (0 <= spread /\ spread < FlatThreshold)
           /\ (status = "NORMAL") <=> (spread >= FlatThreshold)

\* a summary that records NORMAL although a cell of the spread is missing
C1_MissingCellSeen ==
    /\ Written("treasury_summary")
    /\ {"2Y", "10Y"} \subseteq ColumnsOf(df)
    /\ ~IsNum(LastRow["2Y"])
    /\ SummaryRow.inversion_status = "NORMAL"

(***************************************************************************)
(* C2: the summary file and the chart files are written only if            *)
(* get_treasury_data returned a non-empty table; when every request fails  *)
(* the run returns early with no file written at all and with              *)
(* analyze_rates and plot_curve never invoked.                             *)
(***************************************************************************)
C2_GatedOnData ==
    /\ (\/ Written("treasury_summary")
        \/ Written("treasury_analysis_plotly.html")
        \/ Written("treasury_analysis.png")) => (LoopOver /\ ~empty(df))
    /\ (LoopOver /\ DOMAIN data = {}) =>
          /\ writes = <<>>
          /\ calls = {"get_treasury_data"}
          /\ pc \in {"main_check", "returned"}

C2_Witness ==
    /\ pc = "returned"
    /\ AllRequested
    /\ DOMAIN data = {}
    /\ writes = <<>>

(***************************************************************************)
(* C3: every configured maturity is requested exactly once, in configured  *)
(* order, whether or not earlier requests failed, and the columns of the   *)
(* resulting table are exactly the maturities whose request succeeded.     *)
(***************************************************************************)
C3_EachRequestedOnce ==
    /\ requests = [i \in 1..Len(requests) |-> Code(series[i])]
    /\ Len(requests) <= Len(series)
    /\ LoopOver => AllRequested
    /\ (pc \notin {"start", "fetch"}) => ColumnsOf(df) = DOMAIN data
    /\ (pc \notin {"start", "fetch"}) =>
          df.columns = SelectSeq(series, LAMBDA m : m \in DOMAIN data)

C3_Witness ==
    /\ pc = "main_check"
    /\ AllRequested
    /\ "1Y" \notin DOMAIN data
    /\ "7Y" \notin DOMAIN data
    /\ ColumnsOf(df) = {"2Y", "10Y", "30Y"}

(***************************************************************************)
(* C4: the HTML file is written before the PNG write is attempted, and a   *)
(* failed PNG write is caught: with a non-empty table, whether the PNG     *)
(* write succeeds or fails, the HTML file has been written, main goes on   *)
(* to its closing report, and the data, summary and HTML files written     *)
(* before stay as they are.                                                *)
(***************************************************************************)
C4_PngFailureNotFatal ==
    /\ pc \in {"start", "fetch", "main_check", "returned", "analyze", "plot",
               "plot_png", "complete", "done"}
    /\ (pc \in {"plot_png", "complete", "done"} /\ ~empty(df)) =>
          /\ Len(writes) >= 3
          /\ writes[1].name[1] = "treasury_data"
          /\ writes[2].name[1] = "treasury_summary"
          /\ writes[3].name[1] = "treasury_analysis_plotly.html"
    /\ Written("treasury_analysis.png") =>
          /\ Written("treasury_analysis_plotly.html")
          /\ FirstWrite("treasury_analysis_plotly.html") < FirstWrite("treasury_analysis.png")
    /\ ("PNG_WARNING" \in console) =>
          /\ pc \in {"complete", "done"}
          /\ Len(writes) = 3
          /\ ~Written("treasury_analysis.png")
    /\ (pc = "complete") => ENABLED Complete
    /\ (pc = "done") => "COMPLETE" \in console

C4_Witness ==
    /\ pc = "done"
    /\ "PNG_WARNING" \in console
    /\ "COMPLETE" \in console
    /\ Written("treasury_analysis_plotly.html")
    /\ ~Written("treasury_analysis.png")

(***************************************************************************)
(* C5: when at least one request succeeds, the table that                  *)
(* get_treasury_data saves and returns has no row whose cells are all      *)
(* missing, and has every date of the merged series at which at least one  *)
(* column holds a value, with the cells of the fetched series.             *)
(***************************************************************************)
HasValueAt(t) == \E m \in DOMAIN data : t \in DOMAIN data[m] /\ IsNum(data[m][t])
MergedDates == UNION {DOMAIN data[m] : m \in DOMAIN data}

C5_OnlyAllMissingRowsDropped ==
    (LoopOver /\ DOMAIN data # {}) =>
        /\ Range(df.index) = {t \in MergedDates : HasValueAt(t)}
        /\ \A i, j \in DOMAIN df.index : i < j => df.index[i] < df.index[j]
        /\ \A t \in Range(df.index) : \A m \in DOMAIN data :
              df.at[t][m] = IF t \in DOMAIN data[m] THEN data[m][t] ELSE NaN
        /\ Written("treasury_data")
        /\ DataFile.content.index = df.index
        /\ \A t \in Range(df.index) :
              /\ \E m \in DOMAIN data : DataFile.content.at[t][m] # CsvEmpty
              /\ \A m \in DOMAIN data : DataFile.content.at[t][m] = CsvCell(df.at[t][m])

\* a merged date with no value is dropped while a row with one missing cell is kept
C5_Witness ==
    /\ LoopOver
    /\ DOMAIN data = {"2Y", "10Y"}
    /\ \E t \in MergedDates : ~HasValueAt(t)
    /\ \E t \in Range(df.index) : ~IsNum(df.at[t]["2Y"]) /\ IsNum(df.at[t]["10Y"])

(***************************************************************************)
(* C6: for a non-empty table with any set of columns, analyze_rates        *)
(* writes exactly one summary record; the record has inversion_status      *)
(* 'N/A' and an empty 2Y_10Y_spread exactly when the 2Y or the 10Y column  *)
(* is absent, and it has one yield field per maturity of the canonical     *)
(* order, empty for the absent ones.                                       *)
(***************************************************************************)
C6_OneSummaryRecord ==
    ("analyze_rates" \in calls /\ ~empty(df)) =>
        /\ pc \in {"plot", "plot_png", "complete", "done"}
        /\ Cardinality(WritesOf("treasury_summary")) = 1
        /\ Len(SummaryFile.content) = 1
        /\ stats # NoStats
        /\ LET absent == "2Y" \notin ColumnsOf(df) \/ "10Y" \notin ColumnsOf(df)
           IN /\ (SummaryRow.inversion_status = "N/A" /\ SummaryRow.spread = CsvEmpty)
                    <=> absent
              /\ (SummaryRow.inversion_status = "N/A") <=> absent
        /\ DOMAIN SummaryRow.yields = Range(order)
        /\ \A m \in Range(order) :
              SummaryRow.yields[m] =
                  IF m \in ColumnsOf(df) THEN CsvCell(LastRow[m]) ELSE CsvEmpty

C6_Witness ==
    /\ "analyze_rates" \in calls
    /\ ColumnsOf(df) = {"1Y", "10Y", "30Y"}
    /\ SummaryRow.inversion_status = "N/A"
    /\ SummaryRow.spread = CsvEmpty
    /\ SummaryRow.yields["2Y"] = CsvEmpty
    /\ SummaryRow.yields["10Y"] # CsvEmpty

(***************************************************************************)
(* C7: when both dated files are written, treasury_data_YYYYMMDD.csv and   *)
(* treasury_summary_YYYYMMDD.csv carry the same date stamp, the date of    *)
(* the run, however the clock advances during the run.                     *)
(***************************************************************************)
C7_SameDateStamp ==
    (Written("treasury_data") /\ Written("treasury_summary")) =>
        /\ DataFile.name[2] = SummaryFile.name[2]
        /\ SummaryFile.name[2] = Strftime(end_date)

(***************************************************************************)
(* C8 as claimed: the date field of the summary record is the run date,    *)
(* the date that stamps the summary file's name.                           *)
(***************************************************************************)
C8_DateIsRunDate ==
    Written("treasury_summary") => SummaryRow.date = SummaryFile.name[2]

(***************************************************************************)
(* C8 as amended: the date field of the summary record is the date of the  *)
(* most recent row of the table, which is never later than the run date    *)
(* and may be earlier.                                                     *)
(***************************************************************************)
C8_DateIsLastObservation ==
    Written("treasury_summary") =>
        /\ SummaryRow.date \in Range(df.index)
        /\ \A t \in Range(df.index) : t <= SummaryRow.date
        /\ SummaryRow.date <= SummaryFile.name[2]

\* a table whose last row is older than the run date
C8_Witness ==
    /\ Written("treasury_summary")
    /\ SummaryRow.date < Strftime(end_date)
    /\ SummaryFile.name[2] = Strftime(end_date)

(***************************************************************************)
(* C9 as claimed: for every column of every non-empty table and every      *)
(* window size N >= 1, WindowMin <= Current <= WindowMax.                  *)
(***************************************************************************)
C9_CurrentWithinWindow ==
    (stats # NoStats) =>
        \A m \in DOMAIN stats :
            Le(stats[m].Min, stats[m].Current) /\ Le(stats[m].Current, stats[m].Max)

(***************************************************************************)
(* C9 as amended: for every column whose cell in the last row is not       *)
(* missing, WindowMin <= Current <= WindowMax, where Current is that cell. *)
(***************************************************************************)
C9_PresentCurrentWithinWindow ==
    (stats # NoStats) =>
        /\ DOMAIN stats = ColumnsOf(df)
        /\ \A m \in DOMAIN stats :
              /\ stats[m].Current = LastRow[m]
              /\ IsNum(stats[m].Current) =>
                    /\ Le(stats[m].Min, stats[m].Current)
                    /\ Le(stats[m].Current, stats[m].Max)

\* a column whose Current lies strictly above the window's minimum, beside a
\* column whose Current is missing while its window holds values
C9_Witness ==
    /\ stats # NoStats
    /\ DOMAIN stats = {"2Y", "10Y"}
    /\ IsNum(stats["2Y"].Current)
    /\ IsNum(stats["2Y"].Min)
    /\ stats["2Y"].Min[2] < stats["2Y"].Current[2]
    /\ ~IsNum(stats["10Y"].Current)
    /\ IsNum(stats["10Y"].Max)

(***************************************************************************)
(* C10 as claimed: with the 10Y column present and the 3M column absent,   *)
(* the 3M-10Y spread is still computed, the absent 3M yield taken as 0 (so *)
(* it equals Current[10Y]); the 2Y-10Y spread is skipped whenever one of   *)
(* its columns is absent.                                                  *)
(***************************************************************************)
C10_ZeroFallbackUsed ==
    (report # NoReport) =>
        /\ ("10Y" \in ColumnsOf(df) /\ "3M" \notin ColumnsOf(df)) =>
              report.spread_3m10y = Sub(LastRow["10Y"], Num(0))
        /\ ("2Y" \notin ColumnsOf(df) \/ "10Y" \notin ColumnsOf(df)) =>
              report.spread = NotComputed

(***************************************************************************)
(* C10 as amended: the 3M-10Y spread is skipped whenever the 3M column is  *)
(* absent, also when 10Y is present (the default of 0 is never used), just *)
(* as the 2Y-10Y spread is computed exactly when both of its columns are   *)
(* present.                                                                *)
(***************************************************************************)
C10_AuxiliarySpreadSkipped ==
    (report # NoReport) =>
        /\ ("3M" \notin ColumnsOf(df)) => report.spread_3m10y = NotComputed
        /\ (report.spread = NotComputed) <=>
              ("2Y" \notin ColumnsOf(df) \/ "10Y" \notin ColumnsOf(df))

C10_Witness ==
    /\ report # NoReport
    /\ "10Y" \in ColumnsOf(df)
    /\ "2Y" \notin ColumnsOf(df)
    /\ IsNum(LastRow["10Y"])
    /\ report.spread_3m10y = NotComputed
    /\ report.spread = NotComputed

====
